---------------------------- MODULE Spec2Model ----------------------------
(***************************************************************************)
(* Textbook fee reporter: the text normalizer, the tabular extractors, the *)
(* price resolver and the aggregator, as implemented twice in the          *)
(* repository:                                                             *)
(*   "gui"  src/TextbookPurchaseFeeCalculator.py  (PyQt5 front end)        *)
(*   "cli"  src/textbook_fee_reporter.py          (command line report)    *)
(*                                                                         *)
(* Strings are sequences of characters.  TLA+ string literals are ASCII,   *)
(* so a non-ASCII character is written as a token: "fw(" and "fw)" are the *)
(* full-width parentheses U+FF08 / U+FF09, "fwsp" is the full-width space  *)
(* U+3000, and a CJK ideograph is written in pinyin ("gao" for U+9AD8).    *)
(* Amounts of money are integers: prices and running sums in thousandths,  *)
(* rounded totals in hundredths (cents).                                   *)
(***************************************************************************)
EXTENDS Integers, Sequences, FiniteSets, TLC

VARIABLES norm, book, stu, calc, win

vars == <<norm, book, stu, calc, win>>

\* The value of a component's variable under a specification of another one.
Idle == [pc |-> "idle"]

Impls == {"gui", "cli"}

----------------------------------------------------------------------------
(* Characters and Python's string primitives                               *)

SP   == " "
FWSP == "fwsp"
LP   == "("
RP   == ")"
FWLP == "fw("
FWRP == "fw)"
DASH == "-"

\* Characters matched by \w or by the range 一-龥 of the pattern in
\* str_format_2: letters, digits, underscore, CJK ideographs.
WordChars == {"a", "b", "_", "1",
              "gao", "deng", "shu", "xue", "shang", "zhang", "san", "li", "si",
              "xian", "xing", "dai"}

\* Characters str.strip() removes at both ends (Unicode whitespace).
Whitespace == {SP, FWSP}

Range(s) == {s[i] : i \in 1..Len(s)}

\* c in s
Contains(s, c) == c \in Range(s)

\* s.find(c): the 0-based index of the first c, -1 when there is none.
Find(s, c) ==
    IF Contains(s, c)
    THEN (CHOOSE i \in 1..Len(s) : s[i] = c /\ \A j \in 1..(i-1) : s[j] # c) - 1
    ELSE -1

\* s[:stop] and s[start:] for 0 <= start, stop.
SliceTo(s, stop) == SubSeq(s, 1, IF stop > Len(s) THEN Len(s) ELSE stop)
SliceFrom(s, start) == SubSeq(s, start + 1, Len(s))

\* s.replace(c, '')
RECURSIVE Remove(_, _)
Remove(s, c) ==
    IF s = <<>> THEN <<>>
    ELSE IF Head(s) = c THEN Remove(Tail(s), c)
         ELSE <<Head(s)>> \o Remove(Tail(s), c)

\* re.sub(r'[^\w一-龥]', '', s)
RECURSIVE KeepWord(_)
KeepWord(s) ==
    IF s = <<>> THEN <<>>
    ELSE IF Head(s) \in WordChars THEN <<Head(s)>> \o KeepWord(Tail(s))
         ELSE KeepWord(Tail(s))

\* s.strip()
RECURSIVE LStrip(_)
LStrip(s) == IF s # <<>> /\ Head(s) \in Whitespace THEN LStrip(Tail(s)) ELSE s

RECURSIVE RStrip(_)
RStrip(s) ==
    IF s # <<>> /\ s[Len(s)] \in Whitespace
    THEN RStrip(SubSeq(s, 1, Len(s) - 1)) ELSE s

Strip(s) == RStrip(LStrip(s))

\* needle in hay, for strings
IsSubstring(needle, hay) ==
    \E i \in 0..(Len(hay) - Len(needle)) :
        SubSeq(hay, i + 1, i + Len(needle)) = needle

\* All strings over alphabet A of length at most n.
RECURSIVE StringsUpTo(_, _)
StringsUpTo(A, n) ==
    IF n = 0 THEN {<<>>}
    ELSE LET shorter == StringsUpTo(A, n - 1)
         IN  shorter \cup {Append(s, c) : s \in shorter, c \in A}

----------------------------------------------------------------------------
(* Text normalizer: str_format_1, str_format_2                             *)

\* A Tier-1 normalizer that knows the ASCII parentheses only.
str_format_1_ascii(s) == Remove(Remove(Remove(Remove(s, SP), FWSP), LP), RP)

str_format_1(s) ==
    Remove(Remove(Remove(Remove(Remove(Remove(s, SP), FWSP), LP), RP), FWLP), FWRP)

\* The assignment in the body of both bracket loops:
\* s[:s.find(open)] + s[s.find(close) + 1:]
Cut(s, open, close) ==
    SliceTo(s, Find(s, open)) \o SliceFrom(s, Find(s, close) + 1)

\* The condition of both bracket loops.
HasPair(s, open, close) == Contains(s, open) /\ Contains(s, close)

\* cli: the loop leaves (break) unless the first open precedes the first close.
RECURSIVE StripCli(_, _, _)
StripCli(s, open, close) ==
    IF HasPair(s, open, close) /\ Find(s, open) < Find(s, close)
    THEN StripCli(Cut(s, open, close), open, close)
    ELSE s

\* The result of a call that does not return.
Hang == <<"#hang">>

\* gui: the loop has no such test.  An iteration whose first open precedes
\* its first close removes at least two characters, so a loop that has not
\* left after `fuel` = Len(s) iterations has met a first close before the
\* first open, after which its condition stays true (GuiLoopStuck below):
\* the call does not return.
RECURSIVE StripGui(_, _, _, _)
StripGui(s, open, close, fuel) ==
    IF ~HasPair(s, open, close) THEN s
    ELSE IF fuel = 0 THEN Hang
         ELSE StripGui(Cut(s, open, close), open, close, fuel - 1)

Clean(s) == Remove(Remove(KeepWord(s), SP), FWSP)

str_format_2_cli(s) == Clean(StripCli(StripCli(s, FWLP, FWRP), LP, RP))

str_format_2_gui(s) ==
    LET s1 == StripGui(s, FWLP, FWRP, Len(s))
        s2 == IF s1 = Hang THEN Hang ELSE StripGui(s1, LP, RP, Len(s1))
    IN  IF s2 = Hang THEN Hang ELSE Clean(s2)

str_format_2(impl, s) ==
    IF impl = "gui" THEN str_format_2_gui(s) ELSE str_format_2_cli(s)

----------------------------------------------------------------------------
(* SpecNorm: one call of a normalizer, statement by statement, followed by *)
(* a second call on the result of the first                                *)

\* Longest input string of a normalizer call: a stray closing bracket, then
\* a bracket pair around one character.
MaxLen == 4
\* Iterations of one bracket loop after which the model stops following it.
MaxIter == 4

NormAlphabet == {"a", SP, FWSP, DASH, LP, RP, FWLP, FWRP}

NormStart(impl, fn, input, round, first) ==
    [pc |-> IF fn = "str_format_1" THEN "replace" ELSE "fw_loop",
     impl |-> impl, fn |-> fn, input |-> input, s |-> input,
     iter |-> 0, round |-> round, first |-> first]

NormInit ==
    /\ \E impl \in Impls, fn \in {"str_format_1", "str_format_2"},
          input \in StringsUpTo(NormAlphabet, MaxLen) :
          norm = NormStart(impl, fn, input, 1, <<>>)
    /\ book = Idle /\ stu = Idle /\ calc = Idle /\ win = Idle

\* Whether the loop at norm.pc runs its body once more.
LoopRuns(n, open, close) ==
    /\ HasPair(n.s, open, close)
    /\ n.impl = "cli" => Find(n.s, open) < Find(n.s, close)

NormLoopIter(pc, open, close) ==
    /\ norm.pc = pc
    /\ LoopRuns(norm, open, close)
    /\ norm.iter < MaxIter
    /\ norm' = [norm EXCEPT !.s = Cut(norm.s, open, close), !.iter = @ + 1]

NormLoopExit(pc, open, close, next) ==
    /\ norm.pc = pc
    /\ ~LoopRuns(norm, open, close)
    /\ norm' = [norm EXCEPT !.pc = next, !.iter = 0]

FwLoopIter == NormLoopIter("fw_loop", FWLP, FWRP) /\ UNCHANGED <<book, stu, calc, win>>
FwLoopExit == NormLoopExit("fw_loop", FWLP, FWRP, "ascii_loop") /\ UNCHANGED <<book, stu, calc, win>>
AsciiLoopIter == NormLoopIter("ascii_loop", LP, RP) /\ UNCHANGED <<book, stu, calc, win>>
AsciiLoopExit == NormLoopExit("ascii_loop", LP, RP, "clean") /\ UNCHANGED <<book, stu, calc, win>>

NormClean ==
    /\ norm.pc = "clean"
    /\ norm' = [norm EXCEPT !.pc = "done", !.s = Clean(norm.s)]
    /\ UNCHANGED <<book, stu, calc, win>>

NormReplace ==
    /\ norm.pc = "replace"
    /\ norm' = [norm EXCEPT !.pc = "done", !.s = str_format_1(norm.s)]
    /\ UNCHANGED <<book, stu, calc, win>>

\* The caller applies the same normalizer to the returned string.
NormAgain ==
    /\ norm.pc = "done"
    /\ norm.round = 1
    /\ norm' = NormStart(norm.impl, norm.fn, norm.s, 2, norm.s)
    /\ UNCHANGED <<book, stu, calc, win>>

NormNext ==
    \/ FwLoopIter \/ FwLoopExit \/ AsciiLoopIter \/ AsciiLoopExit
    \/ NormClean \/ NormReplace \/ NormAgain

SpecNorm == NormInit /\ [][NormNext]_vars

----------------------------------------------------------------------------
(* Spreadsheet cells as pandas hands them over                             *)

NaN == [t |-> "nan"]
Num(v) == [t |-> "num", v |-> v]        \* v in thousandths
Text(s) == [t |-> "str", s |-> s]

\* pd.isna / pd.notna
IsNa(cell) == cell.t = "nan"

\* int(x) of a numeric cell: truncation toward zero (x >= 0 here).
ToInt(cell) == cell.v \div 1000

\* float(x) of a numeric cell.
ToFloat(cell) == cell.v

\* str(n) for an integer n >= 0.
RECURSIVE DigitsOf(_)
DigitsOf(n) ==
    LET d == <<"0", "1", "2", "3", "4", "5", "6", "7", "8", "9">>[(n % 10) + 1]
    IN  IF n < 10 THEN <<d>> ELSE Append(DigitsOf(n \div 10), d)

\* str(x) / .astype(str) of a text cell or an empty cell.
AsStr(cell) == IF IsNa(cell) THEN <<"n", "a", "n">> ELSE cell.s

\* Series.str.contains(token).any() and .idxmax() over a list of cells:
\* whether some cell's text contains the token, and the 0-based index of
\* the first that does.
AnyContains(cells, token) ==
    \E i \in 1..Len(cells) : IsSubstring(token, AsStr(cells[i]))

FirstContaining(cells, token) ==
    (CHOOSE i \in 1..Len(cells) :
        /\ IsSubstring(token, AsStr(cells[i]))
        /\ \A j \in 1..(i-1) : ~IsSubstring(token, AsStr(cells[j]))) - 1

\* Header tokens of the two sheets.
XUHAO   == <<"xu", "hao">>                      \* serial number
JIAOCAI == <<"jiao", "cai", "ming", "cheng">>   \* textbook title
ZHEKOU  == <<"zhe", "kou", "jia">>              \* discounted price
XINGMING == <<"xing", "ming">>                  \* name
BANJI   == <<"ban", "ji">>                      \* class

\* What a raise statement leaves behind.  cli wraps every exception of a
\* function in ValueError(prefix + str(e)).
Raised(impl, exc, prefix, msg) ==
    IF impl = "cli" THEN [exc |-> "ValueError", msg |-> prefix \o msg]
    ELSE [exc |-> exc, msg |-> msg]

NoError == [exc |-> "none", msg |-> <<>>]

----------------------------------------------------------------------------
(* SpecBook: process_book_excel                                            *)
(*                                                                         *)
(* The sheet is given by column 0 down to the anchor row (`top`) and the   *)
(* number of rows below it (`nrest`); a row below the anchor is drawn when *)
(* the code first reads it (`rows`, in reading order).  Cells of the data  *)
(* rows are empty or numeric in the serial and price columns and empty or  *)
(* text in the title column.                                               *)

\* Rows below the anchor row.
MaxRows == 4
\* Rows above the anchor row.
MaxTop == 1

BookTargetClass == <<"dian", "qi", "2", "3", "1">>

BookPrefix == <<"chu li jiao cai Excel shi bai: ">>
MsgClassNotFound(target) == <<"wei zhao dao ban ji '">> \o target \o <<"'">>
MsgHeaderNotFound == <<"wei zhao dao 'xu hao' biao ti">>
MsgMissingColumn(col) == <<"que shao bi yao lie: '">> \o col \o <<"'">>
MsgNonContiguous(expected, found) ==
    <<"xu hao bu lian xu: ying wei ">> \o DigitsOf(expected)
        \o <<" dan zhao dao ">> \o DigitsOf(found)
MsgNoValidData == <<"wei zhao dao you xiao shu ju">>
MsgIndexError == <<"single positional indexer is out-of-bounds">>

TopCells == {NaN, Text(<<"shu", "dan">>),
             Text(<<"ban", "ji", ":">> \o BookTargetClass)}

\* Column 0 of the sheet down to its first cell naming the class, or all
\* of column 0 when no cell names it.
Tops ==
    {t \in UNION {[1..n -> TopCells] : n \in 0..(MaxTop + 1)} :
        \A i \in 1..(Len(t) - 1) : ~IsSubstring(BookTargetClass, AsStr(t[i]))}

HeaderRows ==
    {<<Text(XUHAO), Text(JIAOCAI), Text(ZHEKOU)>>,
     <<Text(XUHAO), Text(JIAOCAI), NaN>>,
     <<Text(XUHAO \o <<SP>>), Text(JIAOCAI), Text(ZHEKOU)>>,
     <<NaN, Text(JIAOCAI), Text(ZHEKOU)>>}

SerialCells == {NaN} \cup {Num(500 * k) : k \in 0..(2 * (MaxRows + 1))}
TitleCells  == {NaN, Text(<<"a", SP>>)}
PriceCells  == {NaN, Num(45000)}
DataRows == {<<c0, c1, c2>> : c0 \in SerialCells, c1 \in TitleCells, c2 \in PriceCells}

BookInit ==
    /\ \E impl \in Impls, top \in Tops, nrest \in 0..MaxRows :
          book = [pc |-> "locate", impl |-> impl, target_class |-> BookTargetClass,
                  top |-> top,
                  nrest |-> IF AnyContains(top, BookTargetClass) THEN nrest ELSE 0,
                  rows |-> <<>>, class_row |-> -1, header_row |-> -1,
                  col_indices |-> <<>>, current_row |-> -1, expected_serial |-> 0,
                  book_data |-> <<>>, result |-> <<>>, error |-> NoError]
    /\ norm = Idle /\ stu = Idle /\ calc = Idle /\ win = Idle

\* len(df)
BookLen(b) == Len(b.top) + b.nrest

\* The row with 0-based index r of the sheet, for a row below the anchor.
BookRow(b, r) == b.rows[r - b.class_row]

BookRaise(b, exc, msg) ==
    [b EXCEPT !.pc = "error", !.error = Raised(b.impl, exc, BookPrefix, msg)]

\* Lines 55-58 (gui), 40-43 (cli)
LocateClass ==
    /\ book.pc = "locate"
    /\ book' =
         IF ~AnyContains(book.top, book.target_class)
         THEN BookRaise(book, "ValueError", MsgClassNotFound(book.target_class))
         ELSE [book EXCEPT !.pc = "header",
                           !.class_row = FirstContaining(book.top, book.target_class)]
    /\ UNCHANGED <<norm, stu, calc, win>>

\* Lines 59-61 (gui), 46-49 (cli).  df.iloc[class_row + 1, 0] raises
\* IndexError when the anchor is the last row of the sheet.
CheckHeaderMissingRow ==
    /\ book.pc = "header"
    /\ book.class_row + 1 >= BookLen(book)
    /\ book' = BookRaise(book, "IndexError", MsgIndexError)
    /\ UNCHANGED <<norm, stu, calc, win>>

CheckHeader ==
    /\ book.pc = "header"
    /\ book.class_row + 1 < BookLen(book)
    /\ \E row \in HeaderRows :
          book' =
            IF row[1] # Text(XUHAO)
            THEN [BookRaise(book, "ValueError", MsgHeaderNotFound)
                     EXCEPT !.rows = <<row>>]
            ELSE [book EXCEPT !.pc = "columns", !.rows = <<row>>,
                              !.header_row = book.class_row + 1]
    /\ UNCHANGED <<norm, stu, calc, win>>

\* The first required column, in the order of the dict, that no header
\* cell contains; <<>> when none is missing.
FirstMissing(header, required) ==
    LET missing == {i \in 1..Len(required) : ~AnyContains(header, required[i])}
    IN  IF missing = {} THEN <<>>
        ELSE required[CHOOSE i \in missing : \A j \in missing : i <= j]

BookRequired == <<XUHAO, JIAOCAI, ZHEKOU>>

\* Lines 62-73 (gui), 51-67 (cli)
LocateColumns ==
    /\ book.pc = "columns"
    /\ LET header == BookRow(book, book.header_row)
           missing == FirstMissing(header, BookRequired)
       IN  book' =
             IF missing # <<>>
             THEN BookRaise(book, "ValueError", MsgMissingColumn(missing))
             ELSE [book EXCEPT
                     !.pc = "rows",
                     !.col_indices = [serial |-> FirstContaining(header, XUHAO),
                                      title  |-> FirstContaining(header, JIAOCAI),
                                      price  |-> FirstContaining(header, ZHEKOU)],
                     !.current_row = book.header_row + 1,
                     !.expected_serial = 1]
    /\ UNCHANGED <<norm, stu, calc, win>>

\* The entry of lines 81-86 (gui), 80-85 (cli).  gui stores the stripped
\* text of the title cell, cli the cell itself.
\* An entry numbered from the next expected serial.
book_info_shifted(impl, serial_number, title_cell, price_cell) ==
    [serial |-> serial_number + 1,
     title  |-> IF impl = "gui" THEN Strip(AsStr(title_cell)) ELSE title_cell,
     price  |-> IF ~IsNa(price_cell) THEN ToFloat(price_cell) ELSE 0]

book_info(impl, serial_number, title_cell, price_cell) ==
    [serial |-> serial_number,
     title  |-> IF impl = "gui" THEN Strip(AsStr(title_cell)) ELSE title_cell,
     price  |-> IF ~IsNa(price_cell) THEN ToFloat(price_cell) ELSE 0]

\* One iteration of the while loop: lines 74-89 (gui), 69-89 (cli)
ReadRow ==
    /\ book.pc = "rows"
    /\ book.current_row < BookLen(book)
    /\ \E row \in DataRows :
         LET serial_value == row[book.col_indices.serial + 1]
             b == [book EXCEPT !.rows = Append(@, row)]
         IN  book' =
               IF IsNa(serial_value) THEN [b EXCEPT !.pc = "after"]
               ELSE IF ToInt(serial_value) # book.expected_serial
               THEN BookRaise(b, "ValueError",
                        MsgNonContiguous(book.expected_serial, ToInt(serial_value)))
               ELSE [b EXCEPT
                       !.book_data = Append(@, book_info(book.impl, ToInt(serial_value),
                                               row[book.col_indices.title + 1],
                                               row[book.col_indices.price + 1])),
                       !.current_row = @ + 1,
                       !.expected_serial = @ + 1]
    /\ UNCHANGED <<norm, stu, calc, win>>

RowsEnd ==
    /\ book.pc = "rows"
    /\ book.current_row >= BookLen(book)
    /\ book' = [book EXCEPT !.pc = "after"]
    /\ UNCHANGED <<norm, stu, calc, win>>

\* Lines 90-92 (gui), 91-94 (cli)
BookReturn ==
    /\ book.pc = "after"
    /\ book' =
         IF book.book_data = <<>>
         THEN BookRaise(book, "ValueError", MsgNoValidData)
         ELSE [book EXCEPT !.pc = "done", !.result = book.book_data]
    /\ UNCHANGED <<norm, stu, calc, win>>

BookNext ==
    \/ LocateClass \/ CheckHeaderMissingRow \/ CheckHeader \/ LocateColumns
    \/ ReadRow \/ RowsEnd \/ BookReturn

SpecBook == BookInit /\ [][BookNext]_vars

----------------------------------------------------------------------------
(* SpecStu: process_student_excel                                          *)
(*                                                                         *)
(* The sheet has `nrows` rows of three text cells (keep_default_na=False:  *)
(* an empty cell is the empty string); a row is drawn when the code first  *)
(* reads it.  The target class is a non-empty string without surrounding   *)
(* whitespace, as both callers pass it (gui line 280-281, cli line 320).   *)

\* Rows of the student sheet.
MaxStuRows == 3

StuTargets == {<<"d", "2">>, <<"d">>}

StuPrefix == <<"chu li xue sheng Excel shi bai: ">>
MsgNoNameHeader == <<"wei zhao dao bao han 'xing ming' de biao ti hang">>
MsgNoRecords(target) ==
    <<"wei zhao dao ban ji '">> \o target \o <<"' de you xiao xue sheng gou shu ji lu">>

EMPTY == Text(<<>>)

StuTopRows == {<<Text(<<"ming", "dan">>), EMPTY, EMPTY>>}
StuHeaderRows ==
    {<<Text(XINGMING), Text(BANJI), Text(JIAOCAI)>>,
     <<Text(BANJI), Text(<<"xue", "sheng">> \o XINGMING), Text(JIAOCAI)>>,
     <<Text(XINGMING), Text(BANJI), EMPTY>>}

\* Cells of the name and class columns: a class naming both targets, a
\* class naming one of them, an empty cell, a name with a leading space.
StuTexts   == {<<"x", "d", "2", SP>>, <<"d", SP, "2">>, <<>>, <<SP, "zhang", "san">>}
TitleTexts == {<<FWSP>>, <<"a", SP>>}
StuCellRows == {<<Text(a), Text(b), Text(c)>> :
                   a \in StuTexts, b \in StuTexts, c \in TitleTexts}

StuInit ==
    /\ \E impl \in Impls, target \in StuTargets, nrows \in 0..MaxStuRows :
          stu = [pc |-> "scan", impl |-> impl, target_class |-> target,
                 nrows |-> nrows, rows |-> <<>>, header_row |-> -1,
                 col_indices |-> <<>>, row |-> 0, student_records |-> <<>>,
                 result |-> <<>>, error |-> NoError]
    /\ norm = Idle /\ book = Idle /\ calc = Idle /\ win = Idle

StuRaise(s, msg) ==
    [s EXCEPT !.pc = "error", !.error = Raised(s.impl, "ValueError", StuPrefix, msg)]

\* One iteration of the header scan: lines 98-101 (gui), 106-109 (cli)
ScanHeader ==
    /\ stu.pc = "scan"
    /\ stu.row < stu.nrows
    /\ \E row \in StuTopRows \cup StuHeaderRows :
          stu' = IF AnyContains(row, XINGMING)
                 THEN [stu EXCEPT !.rows = Append(@, row), !.header_row = stu.row,
                                  !.pc = "columns"]
                 ELSE [stu EXCEPT !.rows = Append(@, row), !.row = @ + 1]
    /\ UNCHANGED <<norm, book, calc, win>>

\* Lines 102-103 (gui), 111-112 (cli)
ScanEnd ==
    /\ stu.pc = "scan"
    /\ stu.row >= stu.nrows
    /\ stu' = StuRaise(stu, MsgNoNameHeader)
    /\ UNCHANGED <<norm, book, calc, win>>

StuRequired == <<XINGMING, BANJI, JIAOCAI>>

\* Lines 104-113 (gui), 115-129 (cli)
StuLocateColumns ==
    /\ stu.pc = "columns"
    /\ LET header == stu.rows[stu.header_row + 1]
           missing == FirstMissing(header, StuRequired)
       IN  stu' =
             IF missing # <<>>
             THEN StuRaise(stu, MsgMissingColumn(missing))
             ELSE [stu EXCEPT
                     !.pc = "rows",
                     !.col_indices = [name  |-> FirstContaining(header, XINGMING),
                                      class |-> FirstContaining(header, BANJI),
                                      title |-> FirstContaining(header, JIAOCAI)],
                     !.row = stu.header_row + 1]
    /\ UNCHANGED <<norm, book, calc, win>>

\* The record of lines 117-120 (gui), 133-136 (cli)
student_record(row, col_indices) ==
    [name  |-> Strip(AsStr(row[col_indices.name + 1])),
     title |-> Strip(AsStr(row[col_indices.title + 1]))]

\* any(record.values())
AnyValue(record) == record.name # <<>> \/ record.title # <<>>

\* all(record.values())
AllValues(record) == record.name # <<>> /\ record.title # <<>>

\* Whether the row is kept: lines 115-122 (gui), 131-140 (cli)
KeepsRow(target_class, row, col_indices) ==
    /\ IsSubstring(target_class, Strip(AsStr(row[col_indices.class + 1])))
    /\ AllValues(student_record(row, col_indices))

\* One iteration of the for loop: lines 114-122 (gui), 130-140 (cli)
StuReadRow ==
    /\ stu.pc = "rows"
    /\ stu.row < stu.nrows
    /\ \E row \in StuCellRows :
          stu' = [stu EXCEPT
                    !.rows = Append(@, row),
                    !.row = @ + 1,
                    !.student_records =
                        IF KeepsRow(stu.target_class, row, stu.col_indices)
                        THEN Append(@, student_record(row, stu.col_indices))
                        ELSE @]
    /\ UNCHANGED <<norm, book, calc, win>>

\* Lines 123-125 (gui), 142-145 (cli)
StuReturn ==
    /\ stu.pc = "rows"
    /\ stu.row >= stu.nrows
    /\ stu' = IF stu.student_records = <<>>
              THEN StuRaise(stu, MsgNoRecords(stu.target_class))
              ELSE [stu EXCEPT !.pc = "done", !.result = stu.student_records]
    /\ UNCHANGED <<norm, book, calc, win>>

StuNext == ScanHeader \/ ScanEnd \/ StuLocateColumns \/ StuReadRow \/ StuReturn

SpecStu == StuInit /\ [][StuNext]_vars

----------------------------------------------------------------------------
(* SpecCalc, SpecAgg: calculate_student_payments and the grand total       *)
(*                                                                         *)
(* The two specifications run the same code on different inputs: SpecCalc  *)
(* on titles that meet at different tiers, with a zero price; SpecAgg on   *)
(* prices whose sums fall on a rounding tie.                               *)

\* Entries of the book list.
MaxBooks == 2
\* Entries of the student list.
MaxPurchases == 2

\* dict.get of a missing key.  Prices are >= 0.
None == -1

GAODENG == <<"gao", "deng", "shu", "xue">>
T_ASCII == GAODENG \o <<LP, "shang", RP>>       \* ASCII parentheses
T_FW    == GAODENG \o <<FWLP, "shang", FWRP>>   \* full-width parentheses
T_SPACE == GAODENG \o <<SP, "shang">>
T_BARE  == GAODENG
T_STRAY == <<RP, "shang", LP>>                  \* close before open
T_OTHER == <<"xian", "xing", "dai", "shu">>     \* a book of no list

ZHANGSAN == <<"zhang", "san">>
LISI == <<"li", "si">>
Names == {ZHANGSAN, LISI}

\* The titles of the book list and of the student list of SpecCalc.
CalcBookTitles == {T_ASCII, T_SPACE, T_BARE}
CalcTitles == {T_ASCII, T_FW, T_BARE, T_OTHER}
CalcPrices == {0, 45000}
\* cli stores the title cell as read: a book title may carry a trailing
\* space.
AggBookTitles == {T_ASCII, T_BARE \o <<SP>>}
AggTitles == {T_ASCII, T_BARE, T_STRAY}
\* Prices that are multiples of 1/8: a binary float holds them, and all of
\* their sums, exactly.
AggPrices == {375, 29625}

\* The student lists of at most n purchases.
PurchaseLists(titles, n) ==
    UNION {[1..k -> [name : Names, title : titles]] : k \in 1..n}

\* d[k] = v
Put(d, k, v) == [x \in (DOMAIN d) \cup {k} |-> IF x = k THEN v ELSE d[x]]
\* d.get(k)
Get(d, k) == IF k \in DOMAIN d THEN d[k] ELSE None
EmptyDict == [x \in {} |-> None]

\* bool(x) of a price or None
Truthy(x) == x # None /\ x # 0
\* x or y
Or(x, y) == IF Truthy(x) THEN x ELSE y

\* gui lines 154-156
ResolveGui(maps, bname, fmt1, fmt2) ==
    Or(Or(Get(maps.raw_name, bname), Get(maps.fmt1_name, fmt1)),
       Get(maps.fmt2_name, fmt2))

\* cli lines 226-233
ResolveCli(maps, bname, fmt1, fmt2) ==
    IF bname \in DOMAIN maps.raw_name THEN maps.raw_name[bname]
    ELSE IF fmt1 \in DOMAIN maps.fmt1_name THEN maps.fmt1_name[fmt1]
    ELSE IF fmt2 \in DOMAIN maps.fmt2_name THEN maps.fmt2_name[fmt2]
    ELSE None

Resolve(impl, maps, bname, fmt1, fmt2) ==
    IF impl = "gui" THEN ResolveGui(maps, bname, fmt1, fmt2)
    ELSE ResolveCli(maps, bname, fmt1, fmt2)

\* The condition of gui line 158.
GreedyMatch(maps, bname, fmt1, fmt2) ==
    /\ Truthy(Get(maps.fmt2_name, fmt2))
    /\ ~Truthy(Get(maps.raw_name, bname))
    /\ ~Truthy(Get(maps.fmt1_name, fmt1))

\* totals[name] += price on a defaultdict(float); a dict keeps its keys in
\* the order of their first insertion.
AddTo(totals, name, price) ==
    IF \E i \in 1..Len(totals) : totals[i].name = name
    THEN [i \in 1..Len(totals) |->
            IF totals[i].name = name
            THEN [name |-> name, sum |-> totals[i].sum + price]
            ELSE totals[i]]
    ELSE Append(totals, [name |-> name, sum |-> price])

\* round(v, 2): to the nearest hundredth, a tie to the even hundredth.  v is
\* in thousandths, the result in hundredths.  round() rounds the binary
\* float exactly; the sums of the model are floats without representation
\* error (AggPrices, CalcPrices).
Round2(v) ==
    LET q == v \div 10
        r == v % 10
    IN  IF r < 5 THEN q
        ELSE IF r > 5 THEN q + 1
        ELSE IF q % 2 = 0 THEN q ELSE q + 1

\* The line of an unmatched purchase: gui line 162, cli line 238.
UnmatchedLine(impl, name, bname) ==
    IF impl = "gui" THEN name \o <<SP, DASH, SP>> \o bname
    ELSE <<"xue sheng", "[">> \o name \o <<"]", SP, "jiao cai", "[">>
             \o bname \o <<"]">>

\* sep.join(lines)
RECURSIVE Join(_, _)
Join(lines, sep) ==
    IF lines = <<>> THEN <<>>
    ELSE IF Len(lines) = 1 THEN lines[1]
    ELSE lines[1] \o sep \o Join(Tail(lines), sep)

NL == <<"\n">>
CalcPrefix == <<"ji suan gou shu fei yong shi bai: ">>

\* A message that stops at the first unmatched purchase.
UnmatchedMessageFirst(impl, unmatched) ==
    IF impl = "gui"
    THEN <<"wu fa pi pei jia ge de ji lu:">> \o NL \o unmatched[1]
    ELSE <<"yi xia jiao cai wu fa pi pei jia ge:">> \o NL \o unmatched[1]
             \o NL \o <<"pi pei shun xu: 1.yuan shi ming cheng 2.qu chu kuo hao 3.qu chu kuo hao ji nei rong">>

\* The message of gui line 164, cli lines 241-244.
UnmatchedMessage(impl, unmatched) ==
    IF impl = "gui"
    THEN <<"wu fa pi pei jia ge de ji lu:">> \o NL \o Join(unmatched, NL)
    ELSE <<"yi xia jiao cai wu fa pi pei jia ge:">> \o NL \o Join(unmatched, NL)
             \o NL \o <<"pi pei shun xu: 1.yuan shi ming cheng 2.qu chu kuo hao 3.qu chu kuo hao ji nei rong">>

CalcStart(impl, book_titles, titles, prices) ==
    [pc |-> "index", impl |-> impl, book_titles |-> book_titles,
     titles |-> titles, prices |-> prices,
     nbooks |-> 0,
     price_maps |-> [raw_name |-> EmptyDict, fmt1_name |-> EmptyDict,
                     fmt2_name |-> EmptyDict],
     student_records |-> <<>>, i |-> 0, price |-> None,
     totals |-> <<>>, unmatched |-> <<>>, flag_greedy |-> FALSE,
     payments |-> <<>>, error |-> NoError, total |-> 0]

CalcInit ==
    /\ \E impl \in Impls : calc = CalcStart(impl, CalcBookTitles, CalcTitles, CalcPrices)
    /\ norm = Idle /\ book = Idle /\ stu = Idle /\ win = Idle

AggInit ==
    /\ \E impl \in Impls : calc = CalcStart(impl, AggBookTitles, AggTitles, AggPrices)
    /\ norm = Idle /\ book = Idle /\ stu = Idle /\ win = Idle

\* One iteration of the loop over book_data: gui lines 143-148, cli lines
\* 209-216.  A call of str_format_2 that does not return leaves the caller
\* at "hang".
IndexBook ==
    /\ calc.pc = "index"
    /\ calc.nbooks < MaxBooks
    /\ \E title \in calc.book_titles, price \in calc.prices :
         LET raw == Strip(title)
             fmt1 == str_format_1(raw)
             fmt2 == str_format_2(calc.impl, raw)
         IN  calc' =
               IF fmt2 = Hang THEN [calc EXCEPT !.pc = "hang"]
               ELSE [calc EXCEPT
                       !.nbooks = @ + 1,
                       !.price_maps =
                           [raw_name  |-> Put(@.raw_name, raw, price),
                            fmt1_name |-> Put(@.fmt1_name, fmt1, price),
                            fmt2_name |-> Put(@.fmt2_name, fmt2, price)]]
    /\ UNCHANGED <<norm, book, stu, win>>

\* The loop over book_data ends; the loop over student_records begins.  Both
\* lists are non-empty (the extractors raise otherwise), names and titles of
\* student_records are trimmed and non-empty.
IndexEnd ==
    /\ calc.pc = "index"
    /\ calc.nbooks >= 1
    /\ \E records \in PurchaseLists(calc.titles, MaxPurchases) :
          calc' = [calc EXCEPT !.pc = "resolve", !.student_records = records]
    /\ UNCHANGED <<norm, book, stu, win>>

\* One iteration of the loop over student_records: gui lines 151-162, cli
\* lines 221-238.
ResolvePurchase ==
    /\ calc.pc = "resolve"
    /\ calc.i < Len(calc.student_records)
    /\ LET student == calc.student_records[calc.i + 1]
           name == student.name
           bname == Strip(student.title)
           fmt1 == str_format_1(bname)
           fmt2 == str_format_2(calc.impl, bname)
           price == Resolve(calc.impl, calc.price_maps, bname, fmt1, fmt2)
       IN  calc' =
             IF fmt2 = Hang THEN [calc EXCEPT !.pc = "hang"]
             ELSE IF price # None
             THEN [calc EXCEPT
                     !.i = @ + 1, !.price = price,
                     !.flag_greedy =
                         IF /\ calc.impl = "gui"
                            /\ GreedyMatch(calc.price_maps, bname, fmt1, fmt2)
                         THEN TRUE ELSE @,
                     !.totals = AddTo(@, name, price)]
             ELSE [calc EXCEPT
                     !.i = @ + 1, !.price = price,
                     !.unmatched = Append(@, UnmatchedLine(calc.impl, name, bname))]
    /\ UNCHANGED <<norm, book, stu, win>>

\* The list returned: gui line 165, cli line 246.
Payments(totals) ==
    [i \in 1..Len(totals) |-> [name |-> totals[i].name, fee |-> Round2(totals[i].sum)]]

\* gui lines 163-165, cli lines 240-249
CalcReturn ==
    /\ calc.pc = "resolve"
    /\ calc.i >= Len(calc.student_records)
    /\ calc' =
         IF calc.unmatched # <<>>
         THEN [calc EXCEPT
                 !.pc = "error",
                 !.error = Raised(calc.impl, "ValueError", CalcPrefix,
                                  UnmatchedMessage(calc.impl, calc.unmatched))]
         ELSE [calc EXCEPT !.pc = "returned", !.payments = Payments(calc.totals)]
    /\ UNCHANGED <<norm, book, stu, win>>

\* sum(p['fee'] for p in payments)
RECURSIVE SumFees(_)
SumFees(payments) ==
    IF payments = <<>> THEN 0 ELSE Head(payments).fee + SumFees(Tail(payments))

\* The caller adds up the fees: gui line 306 (run_calculation), cli lines
\* 274-277 (generate_report).
GrandTotal ==
    /\ calc.pc = "returned"
    /\ calc' = [calc EXCEPT !.pc = "reported", !.total = SumFees(calc.payments)]
    /\ UNCHANGED <<norm, book, stu, win>>

CalcNext == IndexBook \/ IndexEnd \/ ResolvePurchase \/ CalcReturn \/ GrandTotal

SpecCalc == CalcInit /\ [][CalcNext]_vars

SpecAgg == AggInit /\ [][CalcNext]_vars

----------------------------------------------------------------------------
(* SpecShell: MainWindow of the gui program, its handlers run_calculation  *)
(* and export_result as the user invokes them between edits of the input   *)
(* fields.  What the three processing stages return for given files and a  *)
(* given class is a choice: an exception, or a list of payments.           *)

DIANQI231 == <<"dian", "qi", "2", "3", "1">>
DIANQI241 == <<"dian", "qi", "2", "4", "1">>

\* Texts of the class field.
ClassTexts == {<<>>, DIANQI231, DIANQI241, DIANQI241 \o <<SP>>}
\* Texts of a file field.
FileTexts == {<<>>, <<"f", ".", "x", "l", "s", "x">>}
\* Lists of payments a successful calculation returns.
PaymentLists == {<<[name |-> ZHANGSAN, fee |-> 4500]>>,
                 <<[name |-> ZHANGSAN, fee |-> 4500], [name |-> LISI, fee |-> 2962]>>}

\* self.result_data = None
NoResult == <<>>
\* No file written.
NoFile == <<>>

\* MainWindow after __init__ (lines 187-194) and load_settings (lines
\* 250-256): the fields show the stored settings.  computed_for is not a
\* field of the program: it records the class name the stages were called
\* with when they produced result_data.
ShellInit ==
    /\ \E cls \in {Strip(t) : t \in ClassTexts}, bf \in FileTexts, sf \in FileTexts :
          win = [class_input |-> cls, book_file_input |-> bf, stu_file_input |-> sf,
                 cls_name |-> cls, book_sales_file |-> bf, student_records_file |-> sf,
                 result_data |-> NoResult, computed_for |-> <<>>,
                 export_enabled |-> FALSE, message |-> "none", file |-> NoFile]
    /\ norm = Idle /\ book = Idle /\ stu = Idle /\ calc = Idle

\* The user edits the three input fields.
EditFields ==
    /\ \E cls \in ClassTexts, bf \in FileTexts, sf \in FileTexts :
          win' = [win EXCEPT !.class_input = cls, !.book_file_input = bf,
                             !.stu_file_input = sf]
    /\ UNCHANGED <<norm, book, stu, calc>>

\* Lines 278-280 of run_calculation.
ReadFields(w) ==
    [w EXCEPT !.book_sales_file = Strip(w.book_file_input),
              !.student_records_file = Strip(w.stu_file_input),
              !.cls_name = Strip(w.class_input)]

\* The condition of line 281.
Incomplete(w) ==
    w.book_sales_file = <<>> \/ w.student_records_file = <<>> \/ w.cls_name = <<>>

\* run_calculation, a field is empty: lines 278-283.
RunIncomplete ==
    /\ Incomplete(ReadFields(win))
    /\ win' = [ReadFields(win) EXCEPT !.message = "warning"]
    /\ UNCHANGED <<norm, book, stu, calc>>

\* run_calculation, a stage raises: lines 278-287, 318-319.
RunFails ==
    /\ ~Incomplete(ReadFields(win))
    /\ win' = [ReadFields(win) EXCEPT !.message = "critical"]
    /\ UNCHANGED <<norm, book, stu, calc>>

\* run_calculation, the stages return: lines 278-316.
RunSucceeds ==
    /\ ~Incomplete(ReadFields(win))
    /\ \E payments \in PaymentLists :
          win' = [ReadFields(win) EXCEPT
                    !.result_data = <<payments, SumFees(payments)>>,
                    !.computed_for = Strip(win.class_input),
                    !.export_enabled = TRUE,
                    !.message = "none"]
    /\ UNCHANGED <<norm, book, stu, calc>>

\* export_result: lines 321-340.  It returns at once without a result (line
\* 322) or without a path (line 325); otherwise it writes the class name,
\* the payments and the total, or fails in writing.
ExportResult ==
    /\ \/ /\ win.result_data = NoResult
          /\ win' = win
       \/ /\ win.result_data # NoResult
          /\ \/ win' = win
             \/ win' = [win EXCEPT !.message = "export error"]
             \/ win' = [win EXCEPT
                          !.message = "exported",
                          !.file = <<[cls_name |-> win.cls_name,
                                      payments |-> win.result_data[1],
                                      total |-> win.result_data[2],
                                      computed_for |-> win.computed_for]>>]
    /\ UNCHANGED <<norm, book, stu, calc>>

ShellNext == EditFields \/ RunIncomplete \/ RunFails \/ RunSucceeds \/ ExportResult

SpecShell == ShellInit /\ [][ShellNext]_vars

----------------------------------------------------------------------------
(* Properties of the normalizers (SpecNorm)                                *)

\* The normalizer of the call in progress, as a function of its argument.
NormFn(n, x) == IF n.fn = "str_format_1" THEN str_format_1(x)
                ELSE str_format_2(n.impl, x)

\* The statement-by-statement run and the operators agree on every call
\* that returns.
NormAgrees ==
    norm.pc = "done" => norm.s = NormFn(norm, norm.input)

\* gui: once the first close of a bracket style precedes its first open,
\* the loop of that style runs again after every iteration.
GuiLoopStuck ==
    [][\A style \in {<<"fw_loop", FWLP, FWRP>>, <<"ascii_loop", LP, RP>>} :
          (/\ norm.impl = "gui" /\ norm.pc = style[1]
           /\ HasPair(norm.s, style[2], style[3])
           /\ Find(norm.s, style[2]) > Find(norm.s, style[3])
           /\ norm'.iter = norm.iter + 1)
          => (/\ HasPair(norm'.s, style[2], style[3])
              /\ Find(norm'.s, style[2]) > Find(norm'.s, style[3]))]_vars

\* C5: str_format_1 and str_format_2 are total; every iteration of a
\* bracket-stripping loop of str_format_2 strictly shortens the string (so
\* the loop stops after at most Len(input) / 2 iterations and the call
\* returns).
C5_LoopsShorten ==
    [][norm'.iter = norm.iter + 1 => Len(norm'.s) < Len(norm.s)]_vars

\* C6: both normalizers are idempotent: for every input string the call
\* returns a string, and the call on that string returns the same string.
C6_Idempotent ==
    LET r == NormFn(norm, norm.input)
    IN  r # Hang /\ NormFn(norm, r) = r

\* The part of C6 the code keeps: when the first call returns, the second
\* call returns its argument.
IdempotentWhenReturned ==
    (norm.round = 2 /\ norm.pc = "done") => norm.s = norm.first

\* The bracket pairs of s of one style with no bracket of that style between
\* them, as pairs of positions.
InnerPairs(s, open, close) ==
    {p \in (1..Len(s)) \X (1..Len(s)) :
        /\ p[1] < p[2]
        /\ s[p[1]] = open /\ s[p[2]] = close
        /\ \A k \in (p[1] + 1)..(p[2] - 1) : s[k] \notin {open, close}}

\* The positions of s enclosed by a bracket pair of either style.
Enclosed(s) ==
    {k \in 1..Len(s) :
        \E style \in {<<FWLP, FWRP>>, <<LP, RP>>} :
            \E p \in InnerPairs(s, style[1], style[2]) : p[1] < k /\ k < p[2]}

\* The first call of str_format_2 has returned.
Normalized2 ==
    norm.fn = "str_format_2" /\ norm.round = 1 /\ norm.pc = "done"

\* C11: str_format_2 removes every bracket span with its content: a
\* character of the input that occurs nowhere but between an opening
\* bracket and the next closing bracket of the same style does not occur in
\* the result, also when a closing bracket of that style comes earlier.
C11_SpansRemoved ==
    Normalized2 =>
      \A k \in Enclosed(norm.input) :
          (\A l \in 1..Len(norm.input) :
                norm.input[l] = norm.input[k] => l \in Enclosed(norm.input))
            => ~Contains(norm.s, norm.input[k])

\* The part of C11 the code keeps: the spans are removed when, of each
\* style, no closing bracket precedes the first opening bracket.
SpansRemovedWithoutStray ==
    (/\ Normalized2
     /\ \A style \in {<<FWLP, FWRP>>, <<LP, RP>>} :
           HasPair(norm.input, style[1], style[2])
             => Find(norm.input, style[1]) < Find(norm.input, style[2]))
      => \A k \in Enclosed(norm.input) :
            (\A l \in 1..Len(norm.input) :
                  norm.input[l] = norm.input[k] => l \in Enclosed(norm.input))
              => ~Contains(norm.s, norm.input[k])

----------------------------------------------------------------------------
(* Properties of process_book_excel (SpecBook)                             *)

BookEnded == book.pc \in {"done", "error"} /\ book.col_indices # <<>>

\* The serial cells of the data rows read, in row order.  The header row
\* holds the exact token in column 0, so column 0 is the serial column.
SerialsRead == [i \in 1..(Len(book.rows) - 1) |-> book.rows[i + 1][1]]

\* The number of leading serial cells that read 1, 2, 3, ...
RECURSIVE Contiguous(_, _)
Contiguous(cells, n) ==
    IF n < Len(cells) /\ ~IsNa(cells[n + 1]) /\ ToInt(cells[n + 1]) = n + 1
    THEN Contiguous(cells, n + 1) ELSE n

\* The entry expected for data row i.
ExpectedEntry(i) ==
    LET row == book.rows[i + 1]
    IN  [serial |-> i,
         title  |-> IF book.impl = "gui" THEN Strip(AsStr(row[2])) ELSE row[2],
         price  |-> IF row[3] = NaN THEN 0 ELSE row[3].v]

\* C7: serial cells reading 1..N followed by an empty cell or the end of
\* the sheet give exactly N entries in serial order; a serial cell that does
\* not read the running expected value gives the non-contiguous-serial error
\* naming the expected and the found value, and no entries; N = 0 gives the
\* no-valid-data error.
C7_ContiguousSerials ==
    BookEnded =>
      LET cells == SerialsRead
          N == Contiguous(cells, 0)
          msg(m) == IF book.impl = "cli" THEN BookPrefix \o m ELSE m
      IN  IF N < Len(cells) /\ ~IsNa(cells[N + 1])
          THEN /\ book.pc = "error"
               /\ book.error.msg = msg(MsgNonContiguous(N + 1, ToInt(cells[N + 1])))
               /\ book.result = <<>>
          ELSE /\ N = Len(cells) => N = book.nrest - 1
               /\ IF N = 0
                  THEN /\ book.pc = "error"
                       /\ book.error.msg = msg(MsgNoValidData)
                       /\ book.result = <<>>
                  ELSE /\ book.pc = "done"
                       /\ book.result = [i \in 1..N |-> ExpectedEntry(i)]

\* Serials 1, 2, 4: the error names expected 3, found 4.
C7_Witness ==
    /\ BookEnded
    /\ Len(SerialsRead) = 3
    /\ SerialsRead[1] = Num(1000) /\ SerialsRead[2] = Num(2000)
    /\ SerialsRead[3] = Num(4000)
    /\ book.error.msg \in {MsgNonContiguous(3, 4), BookPrefix \o MsgNonContiguous(3, 4)}

\* The anchor row is found and the call has ended.
AnchoredEnd == book.pc \in {"done", "error"} /\ book.class_row >= 0

\* No row follows the anchor.
AnchorIsLast == book.class_row + 1 >= BookLen(book)

\* The call failed with the header-not-found error and returned nothing.
HeaderNotFound ==
    /\ book.pc = "error"
    /\ book.error.exc = "ValueError"
    /\ book.error.msg \in {MsgHeaderNotFound, BookPrefix \o MsgHeaderNotFound}
    /\ book.result = <<>>

\* C12: once the anchor row is found, the call fails with the
\* header-not-found error whenever the next row does not hold exactly the
\* serial token in its first column, also when the anchor is the last row
\* of the sheet; no entries are returned and no other failure is raised.
C12_HeaderNotFound ==
    (AnchoredEnd /\ (AnchorIsLast \/ book.rows[1][1] # Text(XUHAO)))
        => HeaderNotFound

\* The part of C12 the code keeps: a row that follows the anchor without
\* the serial token in its first column gives the header-not-found error.
HeaderNotFoundWhenRowFollows ==
    (AnchoredEnd /\ ~AnchorIsLast /\ book.rows[1][1] # Text(XUHAO))
        => HeaderNotFound

----------------------------------------------------------------------------
(* Properties of process_student_excel (SpecStu)                           *)

StuEnded == stu.pc \in {"done", "error"} /\ stu.col_indices # <<>>

\* The cell of a row in the column whose header names the token.
StuCell(row, token) ==
    AsStr(row[FirstContaining(stu.rows[stu.header_row + 1], token) + 1])

\* The records of the claim: one per row after the header whose class cell
\* contains the target class and whose name and title are non-empty after
\* trimming, in row order.
RECURSIVE ExpectedRecords(_)
ExpectedRecords(r) ==
    IF r > Len(stu.rows) THEN <<>>
    ELSE LET row == stu.rows[r]
             name == Strip(StuCell(row, XINGMING))
             title == Strip(StuCell(row, JIAOCAI))
         IN  IF /\ IsSubstring(stu.target_class, StuCell(row, BANJI))
                /\ name # <<>> /\ title # <<>>
             THEN <<[name |-> name, title |-> title]>> \o ExpectedRecords(r + 1)
             ELSE ExpectedRecords(r + 1)

\* C8: process_student_excel returns, in row order, one record per row
\* after the header whose class cell contains the target class and whose
\* name and title are non-empty after trimming; the other rows are dropped;
\* no row retained is an error naming the target class.
C8_RetainedRows ==
    StuEnded =>
      LET expected == ExpectedRecords(stu.header_row + 2)
      IN  /\ Len(stu.rows) = stu.nrows
          /\ IF expected = <<>>
             THEN /\ stu.pc = "error"
                  /\ stu.error.msg \in {MsgNoRecords(stu.target_class),
                                         StuPrefix \o MsgNoRecords(stu.target_class)}
                  /\ IsSubstring(stu.target_class, stu.error.msg)
                  /\ stu.result = <<>>
             ELSE /\ stu.pc = "done"
                  /\ stu.result = expected
                  /\ \A i \in 1..Len(stu.result) :
                        stu.result[i].name # <<>> /\ stu.result[i].title # <<>>

\* A kept row after a dropped row whose class cell names the class but
\* whose name is empty after trimming.
C8_Witness ==
    /\ stu.pc = "done"
    /\ Len(stu.rows) = stu.header_row + 3
    /\ Len(stu.result) = 1
    /\ IsSubstring(stu.target_class, StuCell(stu.rows[stu.header_row + 2], BANJI))
    /\ Strip(StuCell(stu.rows[stu.header_row + 2], XINGMING)) = <<>>

----------------------------------------------------------------------------
(* Properties of calculate_student_payments (SpecCalc, SpecAgg)            *)

\* The keys of purchase k at the three tiers.
Keys(k) ==
    LET bname == Strip(calc.student_records[k].title)
    IN  [raw  |-> bname,
         fmt1 |-> str_format_1(bname),
         fmt2 |-> str_format_2(calc.impl, bname)]

InRaw(k)  == Keys(k).raw  \in DOMAIN calc.price_maps.raw_name
InFmt1(k) == Keys(k).fmt1 \in DOMAIN calc.price_maps.fmt1_name
InFmt2(k) == Keys(k).fmt2 \in DOMAIN calc.price_maps.fmt2_name

\* Purchase k has a key in the map of some tier.
Matched(k) == InRaw(k) \/ InFmt1(k) \/ InFmt2(k)

\* Purchase k has a key in the Tier-2 map only.
Tier2Only(k) == InFmt2(k) /\ ~InRaw(k) /\ ~InFmt1(k)

\* The price of the first map that holds the key of purchase k.
ExpectedPrice(k) ==
    IF InRaw(k) THEN calc.price_maps.raw_name[Keys(k).raw]
    ELSE IF InFmt1(k) THEN calc.price_maps.fmt1_name[Keys(k).fmt1]
    ELSE IF InFmt2(k) THEN calc.price_maps.fmt2_name[Keys(k).fmt2]
    ELSE None

\* Purchase calc.i has just been resolved; calc.price is its price.
JustResolved == calc.pc = "resolve" /\ calc.i >= 1

CalcEnded == calc.pc \in {"returned", "reported", "error"}

\* C1: a purchase whose highest-priority matching tier holds the price 0 is
\* priced at 0: it is not unmatched (None) and no lower tier's price takes
\* its place.
C1_ZeroPriceValid ==
    (JustResolved /\ Matched(calc.i) /\ ExpectedPrice(calc.i) = 0)
        => calc.price = 0

\* C2: the price of every purchase is the price of the first map, in the
\* order raw, Tier-1, Tier-2, that contains its key, and None when no map
\* does.
C2_PriorityOrder ==
    JustResolved => calc.price = ExpectedPrice(calc.i)

\* C3: when the call succeeds, the flag returned (gui) is true if and only
\* if some purchase has a key in the Tier-2 map while its raw and Tier-1
\* lookups fail.
C3_AmbiguousFlag ==
    (calc.impl = "gui" /\ calc.pc \in {"returned", "reported"})
        => (calc.flag_greedy
              <=> \E k \in 1..Len(calc.student_records) : Tier2Only(k))

\* C4: if some purchase has no key at any tier, the call ends in the error,
\* no totals are returned, every purchase has been scanned, and the message
\* holds the line of every unmatched purchase, with its name and its title.
C4_UnmatchedFailsBatch ==
    CalcEnded =>
      LET U == {k \in 1..Len(calc.student_records) : ~Matched(k)}
      IN  U # {} =>
            /\ calc.pc = "error"
            /\ calc.payments = <<>>
            /\ calc.total = 0
            /\ calc.i = Len(calc.student_records)
            /\ Len(calc.unmatched) >= Cardinality(U)
            /\ \A k \in U :
                 LET name == calc.student_records[k].name
                     bname == calc.student_records[k].title
                 IN  /\ IsSubstring(name, calc.error.msg)
                     /\ IsSubstring(bname, calc.error.msg)
                     /\ IsSubstring(UnmatchedLine(calc.impl, name, bname),
                                    calc.error.msg)

\* Two unmatched purchases of two students, with two titles: the error
\* names both.
C4_Witness ==
    /\ calc.pc = "error"
    /\ Len(calc.student_records) = 2
    /\ ~Matched(1) /\ ~Matched(2)
    /\ calc.student_records[1].name # calc.student_records[2].name
    /\ calc.student_records[1].title # calc.student_records[2].title
    /\ Len(calc.unmatched) = 2

\* Rounding to the nearest hundredth, a tie upwards.
HalfUp2(v) == (v + 5) \div 10

\* The sum of the prices of the purchases k..n of a student.
RECURSIVE SumOf(_, _)
SumOf(name, k) ==
    IF k > Len(calc.student_records) THEN 0
    ELSE (IF calc.student_records[k].name = name THEN ExpectedPrice(k) ELSE 0)
         + SumOf(name, k + 1)

\* C9: each student has one total, the sum of the student's resolved prices
\* rounded once, half-up, to the hundredth; the grand total is the sum of
\* the rounded totals.
C9_RoundedPerStudent ==
    calc.pc = "reported" =>
      /\ {calc.payments[j].name : j \in 1..Len(calc.payments)}
           = {calc.student_records[k].name : k \in 1..Len(calc.student_records)}
      /\ \A j, l \in 1..Len(calc.payments) :
           calc.payments[j].name = calc.payments[l].name => j = l
      /\ \A j \in 1..Len(calc.payments) :
           calc.payments[j].fee = HalfUp2(SumOf(calc.payments[j].name, 1))
      /\ calc.total = SumFees(calc.payments)

\* The part of C9 the code keeps: one rounding per student, of the sum.
RoundedOncePerStudent ==
    calc.pc = "reported" =>
      /\ \A j \in 1..Len(calc.payments) :
           calc.payments[j].fee = Round2(SumOf(calc.payments[j].name, 1))
      /\ calc.total = SumFees(calc.payments)

\* The scenario of C10: the book list holds the one entry (ASCII
\* parentheses, 45.00), the student list the one purchase of Zhang San
\* (full-width parentheses); the call has returned and the total is
\* reported.
Scenario ==
    /\ calc.pc = "reported"
    /\ calc.nbooks = 1
    /\ calc.price_maps.raw_name = Put(EmptyDict, T_ASCII, 45000)
    /\ calc.student_records = <<[name |-> ZHANGSAN, title |-> T_FW]>>

\* C10 as stated: in the scenario the purchase resolves via Tier-2, the
\* total of Zhang San is 45.00 and the ambiguous flag is true.
C10_ScenarioTier2 ==
    Scenario =>
      /\ Tier2Only(1)
      /\ calc.payments = <<[name |-> ZHANGSAN, fee |-> 4500]>>
      /\ calc.flag_greedy

\* C10: in the scenario the purchase resolves via Tier-1 (both titles
\* normalize to the same Tier-1 key), the total of Zhang San is 45.00, the
\* grand total is 45.00 and the ambiguous flag is false.
C10_ScenarioTier1 ==
    Scenario =>
      /\ ~InRaw(1) /\ InFmt1(1)
      /\ calc.payments = <<[name |-> ZHANGSAN, fee |-> 4500]>>
      /\ calc.total = 4500
      /\ ~calc.flag_greedy

\* The scenario, run by the program that returns the flag.
C10_Witness == Scenario /\ calc.impl = "gui"

----------------------------------------------------------------------------
(* Properties of MainWindow (SpecShell)                                    *)

\* C13: the payments and the total that export_result writes were computed
\* for the class name it writes next to them.
C13_ExportedForClass ==
    win.file # NoFile => win.file[1].cls_name = win.file[1].computed_for

\* The part of C13 the code keeps: right after a successful run the result
\* belongs to cls_name.
ResultForClassAfterSuccess ==
    [][RunSucceeds => win'.cls_name = win'.computed_for]_vars

=============================================================================
